---- MODULE Spec2Model ----
(***************************************************************************)
(* Model of esp32_mac_collector.py: ESP32Manager's catalog (mac_database,  *)
(* device_counter and the JSON file that mirrors them), the port watcher   *)
(* (detect_esp32_port), the boot listener (collect_mac_from_reset with     *)
(* parse_mac_from_boot_message and increment_mac) and the loop of          *)
(* run_collection_mode.  Text is a sequence of one-character strings, so   *)
(* that the regular expressions, str.replace, str.strip, str.upper, int()  *)
(* and format() are computed character by character.                       *)
(***************************************************************************)
EXTENDS Integers, Sequences, FiniteSets, TLC

VARIABLES
    file,            \* esp32_mac_database.json: [state, devices, next_id]
    mac_database,    \* self.mac_database
    device_counter,  \* self.device_counter
    pc,              \* position of the process
    live,            \* what serial.tools.list_ports.comports() would return
    known_ports,     \* known_ports of run_collection_mode
    port,            \* port of run_collection_mode (the last one detected)
    ser,             \* the serial handle of collect_mac_from_reset
    line,            \* the line the session read last (a name of LineNames)
    elapsed,         \* time.time() - start_time, in clock ticks
    device_info,     \* what collect_mac_from_reset returned
    outcome,         \* which exit collect_mac_from_reset took
    auto_flash,      \* auto_flash and binary_path of run_collection_mode
    flash_result,    \* what the flash step of this cycle did
    last_assigned,   \* history: id of the last record an append returned
    stayed,          \* history: port has been attached ever since detection
    reattached,      \* history: port was re-attached while the loop waited
    run_base,        \* history: last_assigned when this process loaded
    arg,             \* the argument of the function under study (FunctionSpecs)
    ret              \* what that function returned

vars == <<file, mac_database, device_counter, pc, live, known_ports, port, ser,
          line, elapsed, device_info, outcome, auto_flash, flash_result,
          last_assigned, stayed, reattached, run_base, arg, ret>>

----------------------------------------------------------------------------
(* Bounds of the model *)

\* the catalog holds at most this many records
MaxDevices == 2
\* self.timeout, counted in clock ticks
TimeoutTicks == 1

----------------------------------------------------------------------------
(* Text *)

None == <<>>

Lower == <<"a","b","c","d","e","f","g","h","i","j","k","l","m",
           "n","o","p","q","r","s","t","u","v","w","x","y","z">>
UpperCase == <<"A","B","C","D","E","F","G","H","I","J","K","L","M",
               "N","O","P","Q","R","S","T","U","V","W","X","Y","Z">>
HexDigits == <<"0","1","2","3","4","5","6","7","8","9","A","B","C","D","E","F">>

\* a byte sequence that is not valid UTF-8
BadByte == "\\xff"

Whitespace == {" ", "\t"}

\* str.upper on one character
UpperChar(c) ==
    IF \E i \in 1..26 : Lower[i] = c
    THEN UpperCase[CHOOSE i \in 1..26 : Lower[i] = c]
    ELSE c

\* str.upper
Upper(s) == [i \in 1..Len(s) |-> UpperChar(s[i])]

\* [0-9A-Fa-f]
IsHex(c) == \E i \in 1..16 : HexDigits[i] = UpperChar(c)

HexVal(c) == (CHOOSE i \in 1..16 : HexDigits[i] = UpperChar(c)) - 1

\* s[i:] (1-based i)
Drop(s, i) == SubSeq(s, i, Len(s))

\* s.startswith(sub, i-1)
StartsAt(s, sub, i) ==
    /\ i + Len(sub) - 1 <= Len(s)
    /\ \A k \in 1..Len(sub) : s[i + k - 1] = sub[k]

\* str.replace(sub, new): every non-overlapping occurrence, left to right
RECURSIVE Replace(_, _, _)
Replace(s, sub, new) ==
    IF s = <<>> THEN <<>>
    ELSE IF StartsAt(s, sub, 1)
         THEN new \o Replace(Drop(s, Len(sub) + 1), sub, new)
         ELSE <<Head(s)>> \o Replace(Tail(s), sub, new)

\* str.strip
RECURSIVE LStrip(_)
LStrip(s) ==
    IF s # <<>> /\ Head(s) \in Whitespace THEN LStrip(Tail(s)) ELSE s

RECURSIVE RStrip(_)
RStrip(s) ==
    IF s # <<>> /\ s[Len(s)] \in Whitespace
    THEN RStrip(SubSeq(s, 1, Len(s) - 1)) ELSE s

Strip(s) == RStrip(LStrip(s))

\* bytes.decode('utf-8', errors='ignore')
Decode(raw) == SelectSeq(raw, LAMBDA c : c # BadByte)

----------------------------------------------------------------------------
(* parse_mac_from_boot_message *)

\* ([0-9A-Fa-f]{2}[:-]){5}([0-9A-Fa-f]{2}) matched at position i:
\* the position of the match's last character, 0 when there is no match
BareEnd(s, i) ==
    IF /\ i >= 1
       /\ i + 16 <= Len(s)
       /\ \A k \in 0..4 : /\ IsHex(s[i + 3 * k])
                          /\ IsHex(s[i + 3 * k + 1])
                          /\ s[i + 3 * k + 2] \in {":", "-"}
       /\ IsHex(s[i + 15])
       /\ IsHex(s[i + 16])
    THEN i + 16
    ELSE 0

\* [:\s]+ from position j: the length of the longest run
RECURSIVE LabelRun(_, _)
LabelRun(s, j) ==
    IF j <= Len(s) /\ s[j] \in ({":"} \cup Whitespace)
    THEN 1 + LabelRun(s, j + 1)
    ELSE 0

\* [Mm][Aa][Cc][:\s]+ and then the bare pattern, matched at position i
LabelledEnd(s, i) ==
    IF /\ i + 2 <= Len(s)
       /\ s[i] \in {"M", "m"}
       /\ s[i + 1] \in {"A", "a"}
       /\ s[i + 2] \in {"C", "c"}
       /\ LabelRun(s, i + 3) >= 1
    THEN BareEnd(s, i + 3 + LabelRun(s, i + 3))
    ELSE 0

\* re.search scans from the left: the first position from i on where the
\* labelled pattern matches, 0 when there is none
RECURSIVE FirstLabelled(_, _)
FirstLabelled(s, i) ==
    IF i > Len(s) THEN 0
    ELSE IF LabelledEnd(s, i) # 0 THEN i
    ELSE FirstLabelled(s, i + 1)

RECURSIVE FirstBare(_, _)
FirstBare(s, i) ==
    IF i > Len(s) THEN 0
    ELSE IF BareEnd(s, i) # 0 THEN i
    ELSE FirstBare(s, i + 1)

\* match.group(0) of re.search, None when there is no match
SearchLabelled(s) ==
    LET i == FirstLabelled(s, 1)
    IN  IF i = 0 THEN None ELSE SubSeq(s, i, LabelledEnd(s, i))

SearchBare(s) ==
    LET i == FirstBare(s, 1)
    IN  IF i = 0 THEN None ELSE SubSeq(s, i, BareEnd(s, i))

\* lines 79-80
NormalizeMac(mac) ==
    LET a == Replace(mac, <<"M","A","C",":">>, <<>>)
        b == Replace(a, <<"M","a","c",":">>, <<>>)
        c == Replace(b, <<"m","a","c",":">>, <<>>)
        d == Strip(c)
    IN  Upper(Replace(d, <<"-">>, <<":">>))

parse_mac_from_boot_message(text) ==
    LET labelled == SearchLabelled(text)
    IN  IF labelled # None THEN NormalizeMac(labelled)
        ELSE LET bare == SearchBare(text)
             IN  IF bare # None THEN NormalizeMac(bare) ELSE None

----------------------------------------------------------------------------
(* increment_mac *)

\* int(text, 16) raises ValueError: after stripping whitespace the text must
\* be a non-empty run of hex digits
IntRaises(text) ==
    \/ Strip(text) = <<>>
    \/ \E i \in 1..Len(Strip(text)) : ~IsHex(Strip(text)[i])

\* the hex digits of int(text, 16), most significant first
IntDigits(text) == [i \in 1..Len(Strip(text)) |-> HexVal(Strip(text)[i])]

\* digits + carry, in base 16, to any length
RECURSIVE AddDigits(_, _)
AddDigits(ds, carry) ==
    IF ds = <<>>
    THEN IF carry = 0 THEN <<>>
         ELSE AddDigits(<<>>, carry \div 16) \o <<carry % 16>>
    ELSE LET v == ds[Len(ds)] + carry
         IN  AddDigits(SubSeq(ds, 1, Len(ds) - 1), v \div 16) \o <<v % 16>>

RECURSIVE DropLeadingZeros(_)
DropLeadingZeros(ds) ==
    IF Len(ds) > 1 /\ Head(ds) = 0 THEN DropLeadingZeros(Tail(ds)) ELSE ds

\* format(n, '012X'): at least 12 uppercase hex digits, zero padded
Format012X(ds) ==
    LET n == IF ds = <<>> THEN <<0>> ELSE DropLeadingZeros(ds)
        pad == IF Len(n) < 12 THEN [i \in 1..(12 - Len(n)) |-> 0] ELSE <<>>
    IN  [i \in 1..(Len(pad) + Len(n)) |-> HexDigits[(pad \o n)[i] + 1]]

\* mac_hex[a:b] of Python (0-based, end exclusive, clipped at the end)
Slice(s, a, b) == SubSeq(s, a + 1, IF b < Len(s) THEN b ELSE Len(s))

\* ':'.join([mac_hex[i:i+2] for i in range(0, 12, 2)])
JoinPairs(mac_hex) ==
    Slice(mac_hex, 0, 2) \o <<":">> \o Slice(mac_hex, 2, 4) \o <<":">> \o
    Slice(mac_hex, 4, 6) \o <<":">> \o Slice(mac_hex, 6, 8) \o <<":">> \o
    Slice(mac_hex, 8, 10) \o <<":">> \o Slice(mac_hex, 10, 12)

\* raises ValueError on mac_str
IncrementRaises(mac_str) == IntRaises(Replace(mac_str, <<":">>, <<>>))

increment_mac(mac_str, increment) ==
    JoinPairs(Format012X(AddDigits(
        IntDigits(Replace(mac_str, <<":">>, <<>>)), increment)))

----------------------------------------------------------------------------
(* The environment: ports, boards and what they emit *)

Ports == {"COM3", "COM4"}
NoPort == ""

\* datetime.now().isoformat()
Timestamps == {"t1"}

\* the lines a board can emit: plain boot text, a byte that does not decode,
\* a labelled address, an address after the word mac, a bare address with
\* hyphens and an undecodable byte inside it
LineNames == {"boot", "noise", "labelled", "spoken", "bare"}

\* no line read yet in this session
NoLine == "none"

\* ser.readline() has been entered and has not returned: bytes keep arriving,
\* none of them a newline and no two of them 2 s apart (timeout=2, line 105,
\* bounds the wait for one byte, not the call)
Unterminated == "unterminated"

\* the bytes of a line, as ser.readline() returns them
Raw(name) ==
    IF name = "boot" THEN
        <<"b","o","o","t">>
    ELSE
    IF name = "noise" THEN
        <<BadByte>>
    ELSE
    IF name = "labelled" THEN
        <<"M","A","C",":"," ","2","4",":","6","F",":","2","8",":","A","A",":","B","B",":","C","C">>
    ELSE
    IF name = "spoken" THEN
        <<"G","o","t"," ","m","a","c"," ","a","a",":","b","b",":","c","c",":","d","d",":","e","e",":","f","f"," ","r","e","a","d","y">>
    ELSE
    IF name = "bare" THEN
        <<"a","a","-","b","b","-","c","c","-",BadByte,"d","d","-","e","e","-","f","f">>
    ELSE <<>>

----------------------------------------------------------------------------
(* The catalog *)

\* None, as a value of the shape of a record
NoDevice == [id |-> 0, wifi_mac |-> <<>>, bt_mac |-> <<>>,
             timestamp |-> "", port |-> NoPort]

AbsentFile == [state |-> "absent", devices |-> <<>>, next_id |-> 1]

\* what is left of the file when a write did not complete
TruncatedFile == [state |-> "corrupt", devices |-> <<>>, next_id |-> 1]

\* a load that forgets the devices
LoadedDevicesForgotten(data) == <<>>

\* data.get('devices', [])
LoadedDevices(data) == data.devices

\* a load that starts the counter afresh
LoadedCounterReset(data) == 1

\* data.get('next_id', 1)
LoadedCounter(data) == data.next_id

\* a save that writes the counter as it was before the append
SavedDataStaleCounter(db, counter) ==
    [state |-> "valid", devices |-> db, next_id |-> counter - 1]

\* the dictionary save_database dumps (last_updated left out)
SavedData(db, counter) == [state |-> "valid", devices |-> db, next_id |-> counter]

\* device_info of collect_mac_from_reset
NewRecord(counter, mac, bt, t, p) ==
    [id |-> counter, wifi_mac |-> mac, bt_mac |-> bt,
     timestamp |-> t, port |-> p]

\* an append that overwrites the record of a board seen before
UpsertedDatabase(db, rec) ==
    IF \E i \in 1..Len(db) : db[i].wifi_mac = rec.wifi_mac
    THEN [i \in 1..Len(db) |->
             IF db[i].wifi_mac = rec.wifi_mac THEN rec ELSE db[i]]
    ELSE Append(db, rec)

\* self.mac_database.append(device_info)
AppendedDatabase(db, rec) == Append(db, rec)

\* a counter that is not advanced
NextCounterStuck(counter) == counter

\* self.device_counter += 1
NextCounter(counter) == counter + 1

----------------------------------------------------------------------------
(* The process *)

\* no function is under study
NoCall == "none"

Init ==
    /\ file = AbsentFile
    /\ mac_database = <<>>
    /\ device_counter = 1
    /\ pc = "start"
    /\ live \in SUBSET Ports
    /\ known_ports = {}
    /\ port = NoPort
    /\ ser = "closed"
    /\ line = NoLine
    /\ elapsed = 0
    /\ device_info = NoDevice
    /\ outcome = "none"
    /\ auto_flash \in BOOLEAN
    /\ flash_result = "none"
    /\ last_assigned = 0
    /\ stayed = FALSE
    /\ reattached = FALSE
    /\ run_base = 0
    /\ arg = NoCall
    /\ ret = NoCall

\* an exception nobody catches, or a kill: the process is gone, its memory
\* and its handles with it; the file and the boards stay (line is left to
\* the caller: it tells which line was being handled)
Die(reason) ==
    /\ pc' = "dead"
    /\ outcome' = reason
    /\ mac_database' = <<>>
    /\ device_counter' = 1
    /\ known_ports' = {}
    /\ port' = NoPort
    /\ ser' = "closed"
    /\ elapsed' = 0
    /\ device_info' = NoDevice
    /\ flash_result' = "none"
    /\ stayed' = FALSE
    /\ reattached' = FALSE
    /\ run_base' = 0
    /\ UNCHANGED <<live, auto_flash, last_assigned>>

\* a loader that swallows the parse error and starts from an empty catalog
LoadDatabaseSwallowsError ==
    /\ UNCHANGED <<arg, ret>>
    /\ pc = "start"
    /\ mac_database' =
           IF file.state = "valid" THEN LoadedDevices(file) ELSE <<>>
    /\ device_counter' =
           IF file.state = "valid" THEN LoadedCounter(file) ELSE 1
    /\ pc' = "idle"
    /\ run_base' = last_assigned
    /\ UNCHANGED <<file, live, known_ports, port, ser, line, elapsed,
                   device_info, outcome, auto_flash, flash_result,
                   last_assigned, stayed, reattached>>

\* __init__ and load_database, lines 18-35: json.load raises on a file it
\* cannot parse and nothing catches it
LoadDatabase ==
    /\ UNCHANGED <<arg, ret>>
    /\ pc = "start"
    /\ IF file.state = "corrupt"
       THEN Die("load_error") /\ UNCHANGED <<file, line>>
       ELSE /\ mac_database' =
                   IF file.state = "valid" THEN LoadedDevices(file) ELSE <<>>
            /\ device_counter' =
                   IF file.state = "valid" THEN LoadedCounter(file) ELSE 1
            /\ pc' = "idle"
            /\ run_base' = last_assigned
            /\ UNCHANGED <<file, live, known_ports, port, ser, line, elapsed,
                           device_info, outcome, auto_flash, flash_result,
                           last_assigned, stayed, reattached>>

\* run_collection_mode, line 208
Snapshot ==
    /\ UNCHANGED <<arg, ret>>
    /\ pc = "idle"
    /\ known_ports' = live
    /\ pc' = "waiting"
    /\ UNCHANGED <<file, mac_database, device_counter, live, port, ser, line,
                   elapsed, device_info, outcome, auto_flash, flash_result,
                   last_assigned, stayed, reattached, run_base>>

\* a watcher that forgets the set difference
NewPortsNoDifference(current_ports, known) == current_ports

\* new_ports = current_ports - known_ports
NewPorts(current_ports, known) == current_ports \ known

\* a watcher that hands back the baseline it was given
ReturnedOldBaseline(current_ports, known) == known

\* the second component of what detect_esp32_port returns
ReturnedBaseline(current_ports, known) == current_ports

\* one round of the loop of detect_esp32_port, and with a new port the
\* return to run_collection_mode, line 212
Poll ==
    /\ UNCHANGED <<arg, ret>>
    /\ pc = "waiting"
    /\ IF NewPorts(live, known_ports) = {}
       THEN UNCHANGED vars
       ELSE /\ \E p \in NewPorts(live, known_ports) : port' = p
            /\ known_ports' = ReturnedBaseline(live, known_ports)
            /\ pc' = "capturing"
            /\ device_info' = NoDevice
            /\ outcome' = "none"
            /\ flash_result' = "none"
            /\ line' = NoLine
            /\ stayed' = TRUE
            /\ reattached' = FALSE
            /\ UNCHANGED <<file, mac_database, device_counter, live, ser,
                           elapsed, auto_flash, last_assigned, run_base>>

\* the operator plugs a board in
Attach(p) ==
    /\ UNCHANGED <<arg, ret>>
    /\ p \notin live
    /\ live' = live \cup {p}
    /\ reattached' = IF p = port /\ pc = "waiting" THEN TRUE ELSE reattached
    /\ UNCHANGED <<file, mac_database, device_counter, pc, known_ports, port,
                   ser, line, elapsed, device_info, outcome, auto_flash,
                   flash_result, last_assigned, stayed, run_base>>

\* the operator pulls a board out
Detach(p) ==
    /\ UNCHANGED <<arg, ret>>
    /\ p \in live
    /\ live' = live \ {p}
    /\ stayed' = IF p = port THEN FALSE ELSE stayed
    /\ reattached' = IF p = port THEN FALSE ELSE reattached
    /\ UNCHANGED <<file, mac_database, device_counter, pc, known_ports, port,
                   ser, line, elapsed, device_info, outcome, auto_flash,
                   flash_result, last_assigned, run_base>>

\* what collect_mac_from_reset hands back at line 148, after the timeout
TimeoutReturn == NoDevice

\* what collect_mac_from_reset hands back at line 152, from the handler of
\* SerialException
OpenErrorReturn == NoDevice

\* collect_mac_from_reset, lines 104-112: serial.Serial(port, ...) opens the
\* port, or raises SerialException, which line 150 catches
OpenPort ==
    /\ UNCHANGED <<arg, ret>>
    /\ pc = "capturing"
    /\ \/ /\ port \in live
          /\ Len(mac_database) < MaxDevices
          /\ ser' = "open"
          /\ elapsed' = 0
          /\ line' = NoLine
          /\ pc' = "reading"
          /\ UNCHANGED <<device_info, outcome>>
       \/ /\ pc' = "failed"
          /\ outcome' = "open_error"
          /\ device_info' = OpenErrorReturn
          /\ UNCHANGED <<ser, elapsed, line>>
    /\ UNCHANGED <<file, mac_database, device_counter, live, known_ports, port,
                   auto_flash, flash_result, last_assigned, stayed, reattached,
                   run_base>>

\* line 117
DecodedLine(name) == Strip(Decode(Raw(name)))

\* lines 117 and 122 on each line a board can emit, computed once
LineText == [name \in LineNames |-> DecodedLine(name)]
LineMac == [name \in LineNames |-> parse_mac_from_boot_message(LineText[name])]

\* line 126 on each of them: whether increment_mac raises, and what it
\* returns when it does not
LineRaises ==
    [name \in LineNames |->
        LineMac[name] # None /\ IncrementRaises(LineMac[name])]
LineBtMac ==
    [name \in LineNames |->
        IF LineMac[name] = None \/ LineRaises[name] THEN None
        ELSE increment_mac(LineMac[name], 2)]

\* the process is in the body of the loop: the condition of line 114 held
\* when it was last evaluated
InLoop == elapsed < TimeoutTicks \/ line = Unterminated

\* line 117: bytes are waiting and ser.readline() is entered on a line whose
\* end has not arrived
ReadBlocks ==
    /\ UNCHANGED <<arg, ret>>
    /\ pc = "reading"
    /\ elapsed < TimeoutTicks
    /\ line # Unterminated
    /\ line' = Unterminated
    /\ UNCHANGED <<file, mac_database, device_counter, pc, live, known_ports,
                   port, ser, elapsed, device_info, outcome, auto_flash,
                   flash_result, last_assigned, stayed, reattached, run_base>>

\* one round of the loop of collect_mac_from_reset with a line waiting,
\* lines 114-144; the board chooses the line
ReadLine ==
    /\ UNCHANGED <<arg, ret>>
    /\ pc = "reading"
    /\ InLoop
    /\ \E l \in LineNames :
       LET text == LineText[l]
           mac == LineMac[l]
       IN  /\ line' = l
           /\ IF text = <<>> \/ mac = None
              THEN \* nothing to store: the loop goes round
                   UNCHANGED <<file, mac_database, device_counter, pc, live,
                               known_ports, port, ser, elapsed, device_info,
                               outcome, auto_flash, flash_result,
                               last_assigned, stayed, reattached, run_base>>
              ELSE IF LineRaises[l]
              THEN \* int() raises ValueError, which nothing catches
                   Die("value_error") /\ UNCHANGED file
              ELSE \E t \in Timestamps,
                      saved \in {"written", "not_opened", "truncated"} :
                   LET rec == NewRecord(device_counter, mac, LineBtMac[l],
                                        t, port)
                       db == AppendedDatabase(mac_database, rec)
                       counter == NextCounter(device_counter)
                   IN  IF saved = "written"
                       THEN /\ mac_database' = db
                            /\ device_counter' = counter
                            /\ file' = SavedData(db, counter)
                            /\ ser' = "closed"
                            /\ device_info' = rec
                            /\ outcome' = "recorded"
                            /\ pc' = "recorded"
                            /\ last_assigned' = rec.id
                            /\ elapsed' = 0
                            /\ UNCHANGED <<live, known_ports, port,
                                           auto_flash, flash_result, stayed,
                                           reattached, run_base>>
                       ELSE \* open(..., 'w') raises and leaves the file, or
                            \* the write stops after open has emptied it
                            /\ file' = IF saved = "truncated"
                                       THEN TruncatedFile ELSE file
                            /\ Die("persist_error")

\* time passes while the session is open; the model stops the clock one tick
\* after the timeout, which only a call of readline that has not returned
\* can reach
Tick ==
    /\ UNCHANGED <<arg, ret>>
    /\ pc = "reading"
    /\ elapsed < TimeoutTicks \/ (line = Unterminated /\ elapsed = TimeoutTicks)
    /\ elapsed' = elapsed + 1
    /\ UNCHANGED <<file, mac_database, device_counter, pc, live, known_ports,
                   port, ser, line, device_info, outcome, auto_flash,
                   flash_result, last_assigned, stayed, reattached, run_base>>

\* a timeout that uses up the identifier it announced
TimeoutBurnsId ==
    /\ UNCHANGED <<arg, ret>>
    /\ pc = "reading"
    /\ ~(elapsed < TimeoutTicks)
    /\ line # Unterminated
    /\ ser' = "closed"
    /\ outcome' = "timeout"
    /\ device_info' = TimeoutReturn
    /\ pc' = "failed"
    /\ device_counter' = device_counter + 1
    /\ elapsed' = 0
    /\ UNCHANGED <<file, mac_database, live, known_ports, port, line,
                   auto_flash, flash_result, last_assigned, stayed, reattached,
                   run_base>>

\* lines 146-148; start_time goes with the call
Timeout ==
    /\ UNCHANGED <<arg, ret>>
    /\ pc = "reading"
    /\ ~(elapsed < TimeoutTicks)
    /\ line # Unterminated
    /\ ser' = "closed"
    /\ outcome' = "timeout"
    /\ device_info' = TimeoutReturn
    /\ pc' = "failed"
    /\ elapsed' = 0
    /\ UNCHANGED <<file, mac_database, device_counter, live, known_ports, port,
                   line, auto_flash, flash_result, last_assigned,
                   stayed, reattached, run_base>>

\* ser.in_waiting or ser.readline() raises SerialException inside the loop;
\* line 150 catches it and nothing closes ser
ReadError ==
    /\ UNCHANGED <<arg, ret>>
    /\ pc = "reading"
    /\ InLoop
    /\ ser' = "leaked"
    /\ outcome' = "read_error"
    /\ device_info' = OpenErrorReturn
    /\ pc' = "failed"
    /\ elapsed' = 0
    /\ UNCHANGED <<file, mac_database, device_counter, live, known_ports, port,
                   line, auto_flash, flash_result, last_assigned,
                   stayed, reattached, run_base>>

FlashResults == {"flashed", "image_missing", "erase_failed", "write_failed",
                 "tool_missing"}

\* run_collection_mode, lines 220-229, up to the call of flash_firmware
AfterRecorded ==
    /\ UNCHANGED <<arg, ret>>
    /\ pc = "recorded"
    /\ IF auto_flash
       THEN \E response \in {"y", "n"} :
                IF response # "n"
                THEN pc' = "flashing" /\ UNCHANGED flash_result
                ELSE pc' = "waiting" /\ flash_result' = "skipped"
       ELSE pc' = "waiting" /\ UNCHANGED flash_result
    /\ line' = NoLine
    /\ UNCHANGED <<file, mac_database, device_counter, live, known_ports, port,
                   ser, elapsed, device_info, outcome, auto_flash,
                   last_assigned, stayed, reattached, run_base>>

\* how flash_firmware ends, lines 160-197: the image is looked for first,
\* then esptool.py is run to erase, then to write; a missing tool raises
\* FileNotFoundError and a non-zero exit CalledProcessError, both caught
FlashOutcome(image_exists, tool_found, erase_rc, write_rc) ==
    IF ~image_exists THEN "image_missing"
    ELSE IF ~tool_found THEN "tool_missing"
    ELSE IF erase_rc # 0 THEN "erase_failed"
    ELSE IF write_rc # 0 THEN "write_failed"
    ELSE "flashed"

\* a loop that flashes again until the flasher succeeds
FlashFirmwareRetries ==
    /\ UNCHANGED <<arg, ret>>
    /\ pc = "flashing"
    /\ \E image_exists \in BOOLEAN, tool_found \in BOOLEAN,
          erase_rc \in {0, 1}, write_rc \in {0, 1} :
           /\ flash_result' =
                  FlashOutcome(image_exists, tool_found, erase_rc, write_rc)
           /\ pc' = IF flash_result' = "flashed" THEN "waiting" ELSE "flashing"
    /\ UNCHANGED <<file, mac_database, device_counter, live, known_ports, port,
                   ser, line, elapsed, device_info, outcome, auto_flash,
                   last_assigned, stayed, reattached, run_base>>

\* flash_firmware returns, lines 154-197; line 227 drops what it returned and
\* the loop goes round
FlashFirmware ==
    /\ UNCHANGED <<arg, ret>>
    /\ pc = "flashing"
    /\ \E image_exists \in BOOLEAN, tool_found \in BOOLEAN,
          erase_rc \in {0, 1}, write_rc \in {0, 1} :
           flash_result' =
               FlashOutcome(image_exists, tool_found, erase_rc, write_rc)
    /\ pc' = "waiting"
    /\ UNCHANGED <<file, mac_database, device_counter, live, known_ports, port,
                   ser, line, elapsed, device_info, outcome, auto_flash,
                   last_assigned, stayed, reattached, run_base>>

\* a loop that offers the flash whether or not the capture gave a record
AfterFailedFlashes ==
    /\ UNCHANGED <<arg, ret>>
    /\ pc = "failed"
    /\ pc' = IF auto_flash THEN "flashing" ELSE "waiting"
    /\ line' = NoLine
    /\ UNCHANGED <<file, mac_database, device_counter, live, known_ports, port,
                   ser, elapsed, device_info, outcome, auto_flash,
                   flash_result, last_assigned, stayed, reattached, run_base>>

\* run_collection_mode, lines 230-234
AfterFailed ==
    /\ UNCHANGED <<arg, ret>>
    /\ pc = "failed"
    /\ pc' = "waiting"
    /\ line' = NoLine
    /\ UNCHANGED <<file, mac_database, device_counter, live, known_ports, port,
                   ser, elapsed, device_info, outcome, auto_flash,
                   flash_result, last_assigned, stayed, reattached, run_base>>

\* Ctrl+C or a kill, anywhere
Kill ==
    /\ UNCHANGED <<arg, ret>>
    /\ pc \notin {"start", "dead"}
    /\ Die("killed")
    /\ line' = NoLine
    /\ UNCHANGED file

\* the operator starts the program again
Restart ==
    /\ UNCHANGED <<arg, ret>>
    /\ pc = "dead"
    /\ pc' = "start"
    /\ outcome' = "none"
    /\ auto_flash' \in BOOLEAN
    /\ line' = NoLine
    /\ UNCHANGED <<file, mac_database, device_counter, live, known_ports, port,
                   ser, elapsed, device_info, flash_result,
                   last_assigned, stayed, reattached, run_base>>

Next ==
    \/ LoadDatabase
    \/ Snapshot
    \/ Poll
    \/ \E p \in Ports : Attach(p)
    \/ \E p \in Ports : Detach(p)
    \/ OpenPort
    \/ ReadBlocks
    \/ ReadLine
    \/ Tick
    \/ Timeout
    \/ ReadError
    \/ AfterRecorded
    \/ FlashFirmware
    \/ AfterFailed
    \/ Kill
    \/ Restart

Spec == Init /\ [][Next]_vars

\* the clock runs and the loop of collect_mac_from_reset, when the process
\* is at its head, evaluates its condition; what the board sends, and when,
\* is left open
FairSpec == Spec /\ WF_vars(Tick) /\ WF_vars(Timeout)

----------------------------------------------------------------------------
(* The functions on their own: one call after another, the process at rest *)

ProcessVars == <<file, mac_database, device_counter, pc, live, known_ports,
                 port, ser, line, elapsed, device_info, outcome, auto_flash,
                 flash_result, last_assigned, stayed, reattached, run_base>>

\* the process before it is started, no board attached
AtRest ==
    /\ file = AbsentFile
    /\ mac_database = <<>>
    /\ device_counter = 1
    /\ pc = "start"
    /\ live = {}
    /\ known_ports = {}
    /\ port = NoPort
    /\ ser = "closed"
    /\ line = NoLine
    /\ elapsed = 0
    /\ device_info = NoDevice
    /\ outcome = "none"
    /\ auto_flash = FALSE
    /\ flash_result = "none"
    /\ last_assigned = 0
    /\ stayed = FALSE
    /\ reattached = FALSE
    /\ run_base = 0

\* a call that has not returned / has returned value
Pending == [done |-> FALSE, value |-> None]
Returned(value) == [done |-> TRUE, value |-> value]

(* increment_mac(mac_str, increment) *)

\* the largest increment tried; the program itself passes 2
MaxOffset == 2

DeriveBytes == {<<"0","0">>, <<"0","1">>, <<"B","C">>, <<"F","E">>,
                <<"F","F">>}

\* canonical addresses, among them the largest and those next to it
DeriveAddresses ==
    { h \o <<":">> \o h \o <<":">> \o h \o <<":">> \o h \o <<":">> \o
      m \o <<":">> \o l : h \in {<<"0","0">>, <<"F","F">>},
                          m \in DeriveBytes, l \in DeriveBytes }

DeriveInputs == [mac_str : DeriveAddresses, increment : 0..MaxOffset]

DeriveInit ==
    /\ AtRest
    /\ arg \in DeriveInputs
    /\ ret = Pending

\* the call of increment_mac, lines 84-94
Derive ==
    /\ ~ret.done
    /\ ret' = Returned(increment_mac(arg.mac_str, arg.increment))
    /\ UNCHANGED <<arg, ProcessVars>>

\* the next address to derive from
DeriveAgain ==
    /\ ret.done
    /\ arg' \in DeriveInputs
    /\ ret' = Pending
    /\ UNCHANGED ProcessVars

DeriveNext == Derive \/ DeriveAgain

DeriveSpec == DeriveInit /\ [][DeriveNext]_vars

(* parse_mac_from_boot_message(line) *)

\* what comes before the address on a line
ParsePrefixes ==
    { <<>>, <<"G","o","t"," ">> }

\* the ways a line names the address: no label, or the word mac in any case
\* followed by a colon or by whitespace
ParseLabels ==
    { <<>>,
      <<"M","A","C",":"," ">>,
      <<"M","a","c",":">>,
      <<"m","a","c",":"," ">>,
      <<"m","a","c"," ">>,
      <<"M","A","C","\t">>,
      <<"m","A","c",":"," ">>,
      <<"M","a","C",":">> }

\* six groups with either separator and in either case, and two texts that
\* fall short of six groups
ParseFullAddresses ==
    { <<"a","a",":","b","b",":","c","c",":","d","d",":","e","e",":","f","f">>,
      <<"a","a","-","b","b","-","c","c","-","d","d","-","e","e","-","f","f">>,
      <<"2","4",":","6","F",":","2","8",":","A","A",":","B","B",":","C","C">> }

ParseShortAddresses ==
    { <<"a","a",":","b","b",":","c","c",":","d","d",":","e","e">>,
      <<"a","a",":","b","b",":","c","c",":","d","d",":","e","e",":","f">> }

ParseSuffixes ==
    { <<>>, <<" ","r","e","a","d","y">> }

ParseInputs ==
    [prefix : ParsePrefixes, label : ParseLabels,
     address : ParseFullAddresses \cup ParseShortAddresses,
     suffix : ParseSuffixes]

\* the line handed to the function
LineOf(in) == in.prefix \o in.label \o in.address \o in.suffix

ParseInit ==
    /\ AtRest
    /\ arg \in ParseInputs
    /\ ret = Pending

\* the call of parse_mac_from_boot_message, lines 66-82
Parse ==
    /\ ~ret.done
    /\ ret' = Returned(parse_mac_from_boot_message(LineOf(arg)))
    /\ UNCHANGED <<arg, ProcessVars>>

\* the next line to scan
ParseAgain ==
    /\ ret.done
    /\ arg' \in ParseInputs
    /\ ret' = Pending
    /\ UNCHANGED ProcessVars

ParseNext == Parse \/ ParseAgain

ParseSpec == ParseInit /\ [][ParseNext]_vars

(* save_database and load_database through the text of the file *)

\* the tokens of a JSON text
JPunct(c) == [t |-> "punct", v |-> c]
JString(text) == [t |-> "str", v |-> text]
JNumber(digits) == [t |-> "num", v |-> digits]

DecDigits == <<"0","1","2","3","4","5","6","7","8","9">>

\* an int as json.dump writes it
RECURSIVE IntToText(_)
IntToText(n) ==
    IF n < 10 THEN <<DecDigits[n + 1]>>
    ELSE IntToText(n \div 10) \o <<DecDigits[(n % 10) + 1]>>

\* and as json.load reads it back
RECURSIVE TextToInt(_)
TextToInt(digits) ==
    IF digits = <<>> THEN 0
    ELSE TextToInt(SubSeq(digits, 1, Len(digits) - 1)) * 10 +
         (CHOOSE d \in 0..9 : DecDigits[d + 1] = digits[Len(digits)])

\* one record of the catalog, its keys in the order of lines 130-136
DumpDevice(d) ==
    <<JPunct("{"),
      JString("id"), JPunct(":"), JNumber(IntToText(d.id)), JPunct(","),
      JString("wifi_mac"), JPunct(":"), JString(d.wifi_mac), JPunct(","),
      JString("bt_mac"), JPunct(":"), JString(d.bt_mac), JPunct(","),
      JString("timestamp"), JPunct(":"), JString(d.timestamp), JPunct(","),
      JString("port"), JPunct(":"), JString(d.port),
      JPunct("}")>>

RECURSIVE DumpDevices(_)
DumpDevices(db) ==
    IF db = <<>> THEN <<>>
    ELSE IF Len(db) = 1 THEN DumpDevice(db[1])
    ELSE DumpDevice(db[1]) \o <<JPunct(",")>> \o DumpDevices(Tail(db))

\* json.dump(data, fp=f), lines 38-45: the dictionary of lines 39-43 as text
JsonDump(data, now) ==
    <<JPunct("{"), JString("devices"), JPunct(":"), JPunct("[")>> \o
    DumpDevices(data.devices) \o
    <<JPunct("]"), JPunct(","),
      JString("next_id"), JPunct(":"), JNumber(IntToText(data.next_id)),
      JPunct(","),
      JString("last_updated"), JPunct(":"), JString(now), JPunct("}")>>

IsPunct(tok, c) == tok.t = "punct" /\ tok.v = c

\* json.load: objects become dictionaries, arrays lists, numbers ints; each
\* operator returns the value and the position after it
RECURSIVE JsonValue(_, _), JsonMembers(_, _, _), JsonElements(_, _, _)
JsonValue(toks, i) ==
    IF IsPunct(toks[i], "{") THEN JsonMembers(toks, i + 1, <<>>)
    ELSE IF IsPunct(toks[i], "[") THEN JsonElements(toks, i + 1, <<>>)
    ELSE IF toks[i].t = "num"
    THEN [v |-> TextToInt(toks[i].v), n |-> i + 1]
    ELSE [v |-> toks[i].v, n |-> i + 1]

JsonMembers(toks, i, obj) ==
    IF IsPunct(toks[i], "}") THEN [v |-> obj, n |-> i + 1]
    ELSE IF IsPunct(toks[i], ",") THEN JsonMembers(toks, i + 1, obj)
    ELSE LET member == JsonValue(toks, i + 2)
         IN  JsonMembers(toks, member.n, (toks[i].v :> member.v) @@ obj)

JsonElements(toks, i, list) ==
    IF IsPunct(toks[i], "]") THEN [v |-> list, n |-> i + 1]
    ELSE IF IsPunct(toks[i], ",") THEN JsonElements(toks, i + 1, list)
    ELSE LET element == JsonValue(toks, i)
         IN  JsonElements(toks, element.n, Append(list, element.v))

\* data = json.load(f), line 32
JsonLoad(toks) == JsonValue(toks, 1).v

\* the catalogs the process can hold: records appended one at a time
RoundTripMacs == {LineMac[l] : l \in {"labelled", "bare"}}

RoundTripStamps == {"t1", "t2"}

RECURSIVE CatalogsOfLength(_)
CatalogsOfLength(n) ==
    IF n = 0 THEN {<<>>}
    ELSE { AppendedDatabase(db,
                            NewRecord(n, mac, increment_mac(mac, 2), t, p)) :
             db \in CatalogsOfLength(n - 1), mac \in RoundTripMacs,
             t \in Timestamps, p \in Ports }

RoundTripInputs ==
    UNION { { [db |-> db, counter |-> n + 1] : db \in CatalogsOfLength(n) } :
            n \in 0..MaxDevices }

NotSaved == [stage |-> "new", first |-> <<>>, db |-> <<>>, counter |-> 0,
             second |-> <<>>]

RoundTripInit ==
    /\ AtRest
    /\ arg \in RoundTripInputs
    /\ ret = NotSaved

\* save_database on the catalog in memory, lines 37-46
SaveFirst ==
    /\ ret.stage = "new"
    /\ \E now \in RoundTripStamps :
           ret' = [ret EXCEPT !.stage = "saved",
                              !.first = JsonDump(SavedData(arg.db, arg.counter),
                                                 now)]
    /\ UNCHANGED <<arg, ProcessVars>>

\* load_database on the file just written, lines 28-35
LoadBack ==
    /\ ret.stage = "saved"
    /\ LET data == JsonLoad(ret.first)
       IN  ret' = [ret EXCEPT !.stage = "loaded",
                              !.db = LoadedDevices(data),
                              !.counter = LoadedCounter(data)]
    /\ UNCHANGED <<arg, ProcessVars>>

\* save_database on what was loaded
SaveSecond ==
    /\ ret.stage = "loaded"
    /\ \E now \in RoundTripStamps :
           ret' = [ret EXCEPT !.stage = "resaved",
                              !.second = JsonDump(SavedData(ret.db, ret.counter),
                                                  now)]
    /\ UNCHANGED <<arg, ProcessVars>>

\* the next catalog
RoundTripAgain ==
    /\ ret.stage = "resaved"
    /\ arg' \in RoundTripInputs
    /\ ret' = NotSaved
    /\ UNCHANGED ProcessVars

RoundTripNext == SaveFirst \/ LoadBack \/ SaveSecond \/ RoundTripAgain

RoundTripSpec == RoundTripInit /\ [][RoundTripNext]_vars

----------------------------------------------------------------------------
(* Properties *)

IsPrefix(a, b) == Len(a) <= Len(b) /\ SubSeq(b, 1, Len(a)) = a

Alive(p) == p \notin {"start", "dead"}

\* the step is collect_mac_from_reset returning a record
Captured == pc = "reading" /\ pc' = "recorded"

Contiguous(db, counter) ==
    /\ \A i \in 1..Len(db) : db[i].id = i
    /\ counter = Len(db) + 1

\* C1: starting from an absent file, in every reachable state the record at
\* position i of the catalog has identifier i and next_id is the number of
\* records plus 1, in memory and in the persisted file
C1_ContiguousIds ==
    /\ Contiguous(mac_database, device_counter)
    /\ file.state = "valid" => Contiguous(file.devices, file.next_id)

\* a catalog of two records, loaded again after a restart
C1_Witness ==
    /\ pc = "waiting"
    /\ Len(mac_database) = 2
    /\ run_base = 2

\* C2: every identifier an append hands out is the last one handed out plus
\* 1, whether or not the process was restarted in between, so none is handed
\* out twice
C2_IdsAcrossRestarts ==
    [][Captured => /\ device_info'.id = last_assigned + 1
                   /\ last_assigned' > last_assigned]_vars

\* the second identifier, assigned by a process that loaded the first
C2_Witness ==
    /\ pc = "recorded"
    /\ device_info.id = 2
    /\ run_base = 1

\* C3: a capture that ends in timeout or in failure to open the port leaves
\* the records, the counter and the persisted file as they were
C3_FailureLeavesCatalog ==
    [][(pc \in {"capturing", "reading"} /\ pc' = "failed"
            /\ outcome' \in {"timeout", "open_error"})
        => UNCHANGED <<mac_database, device_counter, file>>]_vars

\* a timeout and an open failure, each with one record in the catalog
C3_Witness ==
    /\ pc = "failed"
    /\ outcome \in {"timeout", "open_error"}
    /\ Len(mac_database) = 1
    /\ file = SavedData(mac_database, device_counter)

\* C4: whatever happens during a save, the file is afterwards a complete
\* catalog that holds every record an earlier append returned
C4_AtomicPersist ==
    /\ file.state # "corrupt"
    /\ last_assigned > 0 =>
           file.state = "valid" /\ Len(file.devices) >= last_assigned

\* C5: when collect_mac_from_reset has returned a record, the file holds the
\* catalog as it is in memory, the record is its last device and next_id is
\* the record's id plus 1
C5_ReturnedIsPersisted ==
    pc = "recorded" =>
        /\ file.state = "valid"
        /\ file.devices = mac_database
        /\ file.next_id = device_counter
        /\ file.devices # <<>>
        /\ file.devices[Len(file.devices)] = device_info
        /\ file.next_id = device_info.id + 1

\* the end-to-end scenario: MAC: 24:6F:28:AA:BB:CC on an empty catalog
C5_Witness ==
    /\ pc = "recorded"
    /\ device_info.id = 1
    /\ device_info.wifi_mac = <<"2","4",":","6","F",":","2","8",":",
                                "A","A",":","B","B",":","C","C">>
    /\ device_info.bt_mac = <<"2","4",":","6","F",":","2","8",":",
                              "A","A",":","B","B",":","C","E">>
    /\ file.next_id = 2

\* C6: while the process lives, a step either leaves the records alone or,
\* when a capture succeeds, adds the returned record after all the others
C6_AppendOnly ==
    [][pc' # "dead" =>
          /\ IsPrefix(mac_database, mac_database')
          /\ Captured => mac_database' = Append(mac_database, device_info')
          /\ (Alive(pc) /\ ~Captured) => mac_database' = mac_database
          /\ (file.state = "valid" /\ file'.state = "valid")
                 => IsPrefix(file.devices, file'.devices)]_vars

\* a board recorded a second time: two records with one primary address
C6_Witness ==
    /\ pc = "recorded"
    /\ Len(mac_database) = 2
    /\ mac_database[1].wifi_mac = mac_database[2].wifi_mac

\* C7: detect_esp32_port returns only at a poll that sees a port outside
\* known_ports, returns such a port, and returns the set it saw as baseline
C7_ReturnsOnlyNewPort ==
    [][pc = "waiting" =>
          /\ live \subseteq known_ports => pc' \in {"waiting", "dead"}
          /\ pc' = "capturing" => /\ port' \in live \ known_ports
                                  /\ known_ports' = live]_vars

\* a second port detected while the first is in the baseline
C7_Witness ==
    /\ pc = "capturing"
    /\ known_ports = Ports
    /\ stayed
    /\ outcome = "none"

\* C8: the baseline is the one the last detection returned, so a port that
\* has stayed attached since it was detected is in the baseline and is not
\* detected again
C8_AttachedNotRedetected ==
    [][/\ (Alive(pc) /\ pc # "idle" /\ stayed) => port \in known_ports
       /\ (pc \in {"capturing", "reading", "recorded", "flashing", "failed"}
               /\ pc' # "dead") => known_ports' = known_ports
       /\ (pc = "waiting" /\ pc' = "capturing" /\ stayed) => port' # port]_vars

\* a cycle has ended, its port is still attached and the loop waits
C8_Witness ==
    /\ pc = "waiting"
    /\ outcome \in {"recorded", "timeout"}
    /\ stayed
    /\ port \in live

\* C9: after a timeout on a port, when the port has been pulled out and put
\* back while the loop waits, the next poll sees it as new
C9_ReattachDetected ==
    (pc = "waiting" /\ outcome = "timeout" /\ reattached)
        => port \in NewPorts(live, known_ports)

\* C10: the first line with an address gives the one record of the cycle:
\* the lines the session read before it had none, the record holds its
\* address and is the one record added; a cycle that fails adds none
C10_FirstAddressRecorded ==
    [][/\ (pc = "reading" /\ line # NoLine)
          => parse_mac_from_boot_message(DecodedLine(line)) = None
       /\ (/\ pc = "reading"
           /\ line' # NoLine
           /\ parse_mac_from_boot_message(DecodedLine(line')) # None
           /\ outcome' # "persist_error")
          => /\ pc' = "recorded"
             /\ device_info'.wifi_mac =
                    parse_mac_from_boot_message(DecodedLine(line'))
             /\ mac_database' = Append(mac_database, device_info')
       /\ (Alive(pc) /\ pc' = "failed") => mac_database' = mac_database]_vars

\* C11: when the port cannot be opened, what collect_mac_from_reset hands back
\* to run_collection_mode differs from what it hands back after the timeout,
\* so the caller can tell the two failures apart.
C11_OpenErrorDistinct ==
    (pc = "failed" /\ outcome = "open_error") => device_info # TimeoutReturn

Mod48(ds) == IF Len(ds) > 12 THEN SubSeq(ds, Len(ds) - 11, Len(ds)) ELSE ds

\* C13: increment_mac(a, o) is the canonical rendering of (int(a) + o) mod
\* 2^48: an address at the top of the 48-bit range wraps around to 0 and the
\* result is a six-byte address.
C13_DeriveWraps ==
    ret.done =>
        ret.value = JoinPairs(Format012X(Mod48(AddDigits(
                        IntDigits(Replace(arg.mac_str, <<":">>, <<>>)),
                        arg.increment))))

\* the 17 characters of an address in canonical form
Canonical(address) == Upper(Replace(address, <<"-">>, <<":">>))

\* C14: for a line that holds a hardware address, with or without the word
\* mac (in any case, followed by a colon or whitespace) before it,
\* parse_mac_from_boot_message returns exactly the canonical uppercase
\* address, the label stripped; for a line with fewer than six hex groups it
\* returns None.
C14_ExtractsCanonical ==
    ret.done =>
        ret.value = IF arg.address \in ParseFullAddresses
                    THEN Canonical(arg.address)
                    ELSE None

\* the text of the file up to its last_updated member
UpToStamp(toks) == SubSeq(toks, 1, Len(toks) - 5)

\* C15: for every catalog in memory, saving it, loading the file and saving
\* again writes the same devices array and the same next_id as the first
\* save; only last_updated may differ.
C15_RoundTrip ==
    ret.stage = "resaved" =>
        /\ UpToStamp(ret.second) = UpToStamp(ret.first)
        /\ ret.db = arg.db
        /\ ret.counter = arg.counter

\* a catalog of two records has been saved, loaded and saved again
C15_Witness ==
    ret.stage = "resaved" /\ Len(arg.db) = 2 /\ Len(ret.second) > 50

\* C16: when the flasher fails (image missing, tool missing, erase or write
\* exiting non-zero) the catalog in memory, the file and the baseline of
\* ports are left as they were, the flasher is not run again in that cycle,
\* and the loop goes on to wait for the next board exactly as after a
\* successful flash.
C16_FlashFailureHarmless ==
    [][/\ (pc = "flashing" /\ flash_result' \in FlashResults) =>
              /\ pc' = "waiting"
              /\ UNCHANGED <<file, mac_database, device_counter, known_ports,
                             port, ser, device_info, outcome, auto_flash>>
       /\ (pc' = "flashing" /\ pc # "flashing") => pc = "recorded"]_vars

\* the flasher has failed on a board just recorded and the loop waits again
C16_Witness ==
    /\ pc = "waiting"
    /\ flash_result \in FlashResults \ {"flashed"}
    /\ outcome = "recorded"
    /\ Len(mac_database) > 0

\* C17: whenever collect_mac_from_reset has ended, with a record, on the
\* timeout or on an error while reading the open port, the serial handle it
\* opened has been closed; no handle is open while the loop waits for the
\* next board.
C17_HandleReleased ==
    pc \in {"recorded", "failed", "flashing", "waiting"} => ser = "closed"

\* C18: whatever the board sends (bytes that do not decode, empty lines,
\* lines with or without an address), a capture cycle ends recorded or
\* failed and the loop waits for the next board again: the process ends
\* only when it is killed or when the catalog cannot be loaded or saved.
C18_StreamNeverHalts ==
    /\ pc = "dead" => outcome \in {"killed", "persist_error", "load_error"}
    /\ outcome # "value_error"

\* C19: collect_mac_from_reset always ends: when no line yields an address
\* it reports the timeout once the time since the start of the session
\* reaches the timeout, whether or not data keeps arriving, and never before.
C19_CaptureTerminates ==
    /\ [][(pc = "reading" /\ pc' = "failed" /\ outcome' = "timeout")
             => ~(elapsed < TimeoutTicks)]_vars
    /\ [](pc = "reading" => elapsed <= TimeoutTicks)
    /\ (pc = "reading") ~> (pc # "reading")

\* C20: flash_firmware is called only in a cycle whose capture gave a record,
\* on the port of that record, after the record has been appended and saved
\* and the serial session closed; it is never called after a failed capture,
\* and the loop waits for the next board only after flash_firmware has
\* returned or the flash was declined.
C20_FlashAfterRecord ==
    [][/\ pc' = "flashing" =>
              /\ outcome' = "recorded"
              /\ device_info' # NoDevice
              /\ device_info'.port = port'
              /\ mac_database' # <<>>
              /\ mac_database'[Len(mac_database')] = device_info'
              /\ file' = SavedData(mac_database', device_counter')
              /\ ser' = "closed"
       /\ (pc' = "flashing" /\ pc # "flashing") => pc = "recorded"
       /\ pc = "failed" => pc' # "flashing"
       /\ (pc' = "waiting" /\ pc # "waiting") =>
              \/ pc = "idle"
              \/ pc = "failed"
              \/ pc = "flashing" /\ flash_result' \in FlashResults
              \/ pc = "recorded" /\ (auto_flash => flash_result' = "skipped")
      ]_vars

\* flash_firmware is running on a board whose record is in the file
C20_Witness ==
    /\ pc = "flashing"
    /\ outcome = "recorded"
    /\ file.state = "valid"
    /\ Len(LoadedDevices(file)) > 0

====
